---- MODULE Spec2Model ----
(***************************************************************************)
(* Model of the broadcast server (src/streams.go: Server.Run,              *)
(* Server.broadcastAll) and of the per-connection pumps (src/client.go:    *)
(* serveWs, Client.readPump, Client.writePump) and of the token registry   *)
(* OpenStreamsList (src/streams.go).                                       *)
(*                                                                         *)
(* Go channels are modelled as a sequence (the buffer) plus a count of the *)
(* close() calls made on them.  A send on a closed channel and a close of  *)
(* a closed channel panic; a panic in any goroutine ends the process, so   *)
(* once `panic` is set no action is enabled any more.                      *)
(***************************************************************************)
EXTENDS Integers, Sequences, FiniteSets, TLC

(* ---------------------------- bounds ----------------------------------- *)
NumClients == 2          \* connections accepted by serveWs
MaxTokens == 2           \* tokens NewSession can mint
MaxTime == 2             \* the clock runs 0..MaxTime
MaxBroadcasts == 3       \* messages taken from svr.broadcast
sendMsgBufferSize == 1   \* capacity of Client.send (1024 in src/client.go:33)
MaxReads == 2            \* frames read from one connection
MiddlewareInSize == 1    \* capacity of Middleware.In
NumControllers == 2      \* AppController values handed to OpenStreamsList.Add
MaxLength == 3           \* OpenStreamsList.length is explored in -MaxLength..MaxLength

(* ------------------------- program constants --------------------------- *)
sendTokenBufferSize == 1 \* capacity of Client.sendToken
sessionTTL == 1          \* sliding session lifetime added by refreshExpiryTime

Clients == 1..NumClients
NoClient == 0

TokenName(i) == "t" \o ToString(i)
MintableTokens == {TokenName(i) : i \in 1..MaxTokens}
\* what a client may present at the upgrade: nothing, "nil", a token the
\* store never issued, or a token the store can issue
SuppliedTokens == {"", "nil", "bogus"} \cup MintableTokens

Message(i) == "m" \o ToString(i)

VARIABLES
    now,          \* wall clock
    sessions,     \* svr.sessions: token -> [expireTime, Client]
    hubpc,        \* Server.Run: "select" or "sweep" (inside broadcastAll)
    sweep,        \* locals of broadcastAll and of its Range
    panic,        \* "none" or the runtime panic that ended the process
    broadcasts,   \* number of messages taken from svr.broadcast so far
    cstate,       \* serveWs position for each connection
    open,         \* Client.open
    send,         \* buffer of Client.send
    sendCloses,   \* close(client.send) calls
    sendToken,    \* buffer of Client.sendToken
    tokenCloses,  \* close(client.sendToken) calls
    session,      \* Client.session (token of the bound session, "" if none)
    conn,         \* Client.conn: "up" or "closed"
    wp,           \* Client.writePump position and locals
    rp,           \* Client.readPump position
    wire,         \* frames flushed to the websocket, in order
    reads,        \* frames ReadMessage has returned on each connection
    held,         \* the Request a readPump is about to push (<<>> if none)
    ingress,      \* buffer of Middleware.In
    processed,    \* Requests the pipeline consumer has taken, in order
    streams,      \* OpenStreamsList.streams: token -> controller
    length        \* OpenStreamsList.length

vars == <<now, sessions, hubpc, sweep, panic, broadcasts, cstate, open, send,
          sendCloses, sendToken, tokenCloses, session, conn, wp, rp, wire,
          reads, held, ingress, processed, streams, length>>

hubVars == <<sessions, hubpc, sweep, panic, broadcasts>>
chanVars == <<send, sendCloses, sendToken, tokenCloses>>
pumpVars == <<conn, wp, rp, wire>>
pipeVars == <<reads, held, ingress, processed>>
oslVars == <<streams, length>>

Alive == panic = "none"

NoSweep == [message |-> "", todo |-> {},
            expiredSessionCount |-> 0, closedClientCount |-> 0,
            refreshedClientCount |-> 0, messagesSent |-> 0]

WpIdle == [pc |-> "off", n |-> 0, w |-> <<>>]

(* ----------------------- session store helpers ------------------------- *)
Exists(token) == token \in DOMAIN sessions

SessionExpired(ctx) == ctx.expireTime < now

refreshExpiryTime == now + sessionTTL

\* the store after NewSession minted `token`
NewSession(token) ==
    [t \in (DOMAIN sessions) \cup {token} |->
        IF t = token THEN [expireTime |-> refreshExpiryTime, Client |-> NoClient]
        ELSE sessions[t]]

\* binds the session of `token` to `client`; a token the store does not hold
\* binds nothing
SetClient(store, token, client) ==
    IF token \in DOMAIN store THEN [store EXCEPT ![token].Client = client]
    ELSE store

Delete(store, token) ==
    [t \in (DOMAIN store) \ {token} |-> store[t]]

\* the token NewSession returns along with an error
NoToken == ""

\* NewSession fails when every token it draws in its retries is taken, which
\* takes a store that holds sessions
NewSessionCanFail == DOMAIN sessions # {}

\* NewSession drawing its token without looking at the store
FreshTokensAny == MintableTokens

\* the tokens NewSession can return: any token no session of the store has
FreshTokens == MintableTokens \ DOMAIN sessions

(* ------------------------------ Init ----------------------------------- *)
Init ==
    /\ now = 0
    /\ sessions = [t \in {} |-> [expireTime |-> 0, Client |-> NoClient]]
    /\ hubpc = "select"
    /\ sweep = NoSweep
    /\ panic = "none"
    /\ broadcasts = 0
    /\ cstate = [c \in Clients |-> "new"]
    /\ open = [c \in Clients |-> FALSE]
    /\ send = [c \in Clients |-> <<>>]
    /\ sendCloses = [c \in Clients |-> 0]
    /\ sendToken = [c \in Clients |-> <<>>]
    /\ tokenCloses = [c \in Clients |-> 0]
    /\ session = [c \in Clients |-> ""]
    /\ conn = [c \in Clients |-> "up"]
    /\ wp = [c \in Clients |-> WpIdle]
    /\ rp = [c \in Clients |-> "off"]
    /\ wire = [c \in Clients |-> <<>>]
    /\ reads = [c \in Clients |-> 0]
    /\ held = [c \in Clients |-> <<>>]
    /\ ingress = <<>>
    /\ processed = <<>>
    /\ streams = [t \in {} |-> 0]
    /\ length = 0

(* ------------------------------ clock ---------------------------------- *)
Tick ==
    /\ Alive
    /\ now < MaxTime
    /\ now' = now + 1
    /\ UNCHANGED <<hubVars, cstate, open, chanVars, session, pumpVars>>
    /\ UNCHANGED <<pipeVars, oslVars>>

(* ------------------------------ serveWs -------------------------------- *)
\* client.go 246-259: build the Client, put the presented token on sendToken,
\* then offer the client on svr.register
ServeWs(c, sessionToken) ==
    /\ Alive
    /\ cstate[c] = "new"
    /\ \A d \in Clients : d < c => cstate[d] # "new"   \* numbered by arrival
    /\ Len(sendToken[c]) < sendTokenBufferSize
    /\ sendToken' = [sendToken EXCEPT ![c] = Append(@, sessionToken)]
    /\ cstate' = [cstate EXCEPT ![c] = "register"]
    /\ UNCHANGED <<now, hubVars, open, send, sendCloses, tokenCloses, session,
                   pumpVars>>
    /\ UNCHANGED <<pipeVars, oslVars>>

\* client.start is signalled once the Hub has handled the registration of c
StartSignalled(c) == cstate[c] = "registered"

\* StartPumps without the receive from client.start: the pumps are started as
\* soon as the client has been offered on svr.register
StartPumpsUnsignalled(c) ==
    /\ Alive
    /\ cstate[c] \in {"register", "registered"}
    /\ wp[c].pc = "off"
    /\ cstate' = [cstate EXCEPT ![c] = IF @ = "registered" THEN "started" ELSE @]
    /\ wp' = [wp EXCEPT ![c].pc = "select"]
    /\ rp' = [rp EXCEPT ![c] = "read"]
    /\ UNCHANGED <<now, hubVars, open, chanVars, session, conn, wire>>
    /\ UNCHANGED <<pipeVars, oslVars>>

\* client.go 261-267: once the start signal arrives both pumps are started
StartPumps(c) ==
    /\ Alive
    /\ StartSignalled(c)                           \* <-client.start
    /\ cstate' = [cstate EXCEPT ![c] = "started"]
    /\ wp' = [wp EXCEPT ![c].pc = "select"]
    /\ rp' = [rp EXCEPT ![c] = "read"]
    /\ UNCHANGED <<now, hubVars, open, chanVars, session, conn, wire>>
    /\ UNCHANGED <<pipeVars, oslVars>>

(* ---------------------------- Server.Run ------------------------------- *)
\* RunRegister with a registration that also refreshes the session it resumes
RunRegisterRefreshing(c) ==
    /\ Alive
    /\ hubpc = "select"
    /\ cstate[c] = "register"
    /\ Len(sendToken[c]) > 0
    /\ LET token == Head(sendToken[c])
           rest == Tail(sendToken[c])
           exists == Exists(token)
       IN  IF (token = "nil") \/ ~exists
           THEN \E fresh \in FreshTokens :
                  /\ Len(rest) < sendTokenBufferSize
                  /\ sendToken' = [sendToken EXCEPT ![c] = Append(rest, fresh)]
                  /\ sessions' = SetClient(NewSession(fresh), fresh, c)
                  /\ session' = [session EXCEPT ![c] = fresh]
           ELSE   /\ sendToken' = [sendToken EXCEPT ![c] = rest]
                  /\ sessions' = SetClient(
                        [sessions EXCEPT ![token].expireTime = refreshExpiryTime],
                        token, c)
                  /\ session' = [session EXCEPT ![c] = token]
    /\ open' = [open EXCEPT ![c] = TRUE]
    /\ cstate' = [cstate EXCEPT ![c] = "registered"]
    /\ UNCHANGED <<now, hubpc, sweep, panic, broadcasts, send, sendCloses,
                   tokenCloses, pumpVars>>
    /\ UNCHANGED <<pipeVars, oslVars>>

\* RunRegister with a registration that mints whatever token is presented
RunRegisterReminting(c) ==
    /\ Alive
    /\ hubpc = "select"
    /\ cstate[c] = "register"
    /\ Len(sendToken[c]) > 0
    /\ LET rest == Tail(sendToken[c])
       IN  \E fresh \in FreshTokens :
             /\ Len(rest) < sendTokenBufferSize
             /\ sendToken' = [sendToken EXCEPT ![c] = Append(rest, fresh)]
             /\ sessions' = SetClient(NewSession(fresh), fresh, c)
             /\ session' = [session EXCEPT ![c] = fresh]
    /\ open' = [open EXCEPT ![c] = TRUE]
    /\ cstate' = [cstate EXCEPT ![c] = "registered"]
    /\ UNCHANGED <<now, hubpc, sweep, panic, broadcasts, send, sendCloses,
                   tokenCloses, pumpVars>>
    /\ UNCHANGED <<pipeVars, oslVars>>

\* case client := <-svr.register  (streams.go 92-108)
RunRegister(c) ==
    /\ Alive
    /\ hubpc = "select"
    /\ cstate[c] = "register"
    /\ Len(sendToken[c]) > 0                      \* token := <-client.sendToken
    /\ LET token == Head(sendToken[c])
           rest == Tail(sendToken[c])
           exists == Exists(token)
       IN  IF (token = "nil") \/ ~exists
           THEN \E fresh \in FreshTokens :
                  /\ Len(rest) < sendTokenBufferSize   \* client.sendToken <- token
                  /\ sendToken' = [sendToken EXCEPT ![c] = Append(rest, fresh)]
                  /\ sessions' = SetClient(NewSession(fresh), fresh, c)
                  /\ session' = [session EXCEPT ![c] = fresh]
           ELSE   /\ sendToken' = [sendToken EXCEPT ![c] = rest]
                  /\ sessions' = SetClient(sessions, token, c)
                  /\ session' = [session EXCEPT ![c] = token]
    /\ open' = [open EXCEPT ![c] = TRUE]
    /\ cstate' = [cstate EXCEPT ![c] = "registered"]
    /\ UNCHANGED <<now, hubpc, sweep, panic, broadcasts, send, sendCloses,
                   tokenCloses, pumpVars>>
    /\ UNCHANGED <<pipeVars, oslVars>>

\* RunRegisterNewSessionFails with log.Fatal in place of log.Print
RunRegisterNewSessionFatal(c) ==
    /\ Alive
    /\ hubpc = "select"
    /\ cstate[c] = "register"
    /\ Len(sendToken[c]) > 0
    /\ (Head(sendToken[c]) = "nil") \/ ~Exists(Head(sendToken[c]))
    /\ NewSessionCanFail
    /\ open' = [open EXCEPT ![c] = TRUE]
    /\ sendToken' = [sendToken EXCEPT ![c] = Tail(@)]
    /\ panic' = "log.Fatal"
    /\ UNCHANGED <<now, sessions, hubpc, sweep, broadcasts, cstate, send,
                   sendCloses, tokenCloses, session, pumpVars>>
    /\ UNCHANGED <<pipeVars, oslVars>>

\* case client := <-svr.register when NewSession returns an error (streams.go
\* 92-108): the error is logged, the token that came with it is sent to the
\* client and SetClient is called with it
RunRegisterNewSessionFails(c) ==
    /\ Alive
    /\ hubpc = "select"
    /\ cstate[c] = "register"
    /\ Len(sendToken[c]) > 0                      \* token := <-client.sendToken
    /\ (Head(sendToken[c]) = "nil") \/ ~Exists(Head(sendToken[c]))
    /\ NewSessionCanFail                           \* token, err = NewSession()
    /\ Len(Tail(sendToken[c])) < sendTokenBufferSize
    /\ sendToken' = [sendToken EXCEPT ![c] = Append(Tail(@), NoToken)]
    /\ sessions' = SetClient(sessions, NoToken, c)
    /\ open' = [open EXCEPT ![c] = TRUE]
    /\ cstate' = [cstate EXCEPT ![c] = "registered"]
    /\ UNCHANGED <<now, hubpc, sweep, panic, broadcasts, send, sendCloses,
                   tokenCloses, session, pumpVars>>
    /\ UNCHANGED <<pipeVars, oslVars>>

\* RunUnregister with an unregistration that also drops the client's session
RunUnregisterDeleting(c) ==
    /\ Alive
    /\ hubpc = "select"
    /\ rp[c] = "unregister"
    /\ rp' = [rp EXCEPT ![c] = "done"]
    /\ IF open[c]
       THEN /\ open' = [open EXCEPT ![c] = FALSE]
            /\ sessions' = IF Exists(session[c]) THEN Delete(sessions, session[c])
                           ELSE sessions
            /\ sendCloses' = [sendCloses EXCEPT ![c] = @ + 1]
            /\ IF sendCloses[c] > 0
               THEN /\ panic' = "close of closed channel"
                    /\ UNCHANGED tokenCloses
               ELSE /\ tokenCloses' = [tokenCloses EXCEPT ![c] = @ + 1]
                    /\ panic' = IF tokenCloses[c] > 0
                                THEN "close of closed channel" ELSE panic
       ELSE UNCHANGED <<open, sessions, sendCloses, tokenCloses, panic>>
    /\ UNCHANGED <<now, hubpc, sweep, broadcasts, cstate, send,
                   sendToken, session, conn, wp, wire>>
    /\ UNCHANGED <<pipeVars, oslVars>>

\* case client := <-svr.unregister  (streams.go 110-117).  The sender is the
\* deferred function of that client's readPump, which then goes on to
\* c.conn.Close() on a transport that is already gone (client.go 130-131).
RunUnregister(c) ==
    /\ Alive
    /\ hubpc = "select"
    /\ rp[c] = "unregister"
    /\ rp' = [rp EXCEPT ![c] = "done"]
    /\ IF open[c]
       THEN /\ open' = [open EXCEPT ![c] = FALSE]
            /\ sendCloses' = [sendCloses EXCEPT ![c] = @ + 1]
            /\ IF sendCloses[c] > 0
               THEN \* close(client.send) of a closed channel panics
                    /\ panic' = "close of closed channel"
                    /\ UNCHANGED tokenCloses
               ELSE /\ tokenCloses' = [tokenCloses EXCEPT ![c] = @ + 1]
                    /\ panic' = IF tokenCloses[c] > 0
                                THEN "close of closed channel" ELSE panic
       ELSE UNCHANGED <<open, sendCloses, tokenCloses, panic>>
    /\ UNCHANGED <<now, sessions, hubpc, sweep, broadcasts, cstate, send,
                   sendToken, session, conn, wp, wire>>
    /\ UNCHANGED <<pipeVars, oslVars>>

\* case message := <-svr.broadcast  (streams.go 118-119, 124-130): enter
\* broadcastAll; Range walks the sessions present at this moment
RunBroadcast ==
    /\ Alive
    /\ hubpc = "select"
    /\ broadcasts < MaxBroadcasts
    /\ broadcasts' = broadcasts + 1
    /\ hubpc' = "sweep"
    /\ sweep' = [NoSweep EXCEPT !.message = Message(broadcasts + 1),
                                !.todo = DOMAIN sessions]
    /\ UNCHANGED <<now, sessions, panic, cstate, open, chanVars, session,
                   pumpVars>>
    /\ UNCHANGED <<pipeVars, oslVars>>

\* broadcastAllVisit with a visitor that does not look at Client.open
broadcastAllVisitAnyClient(key) ==
    /\ Alive
    /\ hubpc = "sweep"
    /\ key \in sweep.todo
    /\ LET ctx == sessions[key]
           client == ctx.Client
       IN  IF SessionExpired(ctx)
           THEN /\ sessions' = Delete(sessions, key)
                /\ sweep' = [sweep EXCEPT !.expiredSessionCount = @ + 1,
                                          !.todo = @ \ {key}]
                /\ UNCHANGED <<chanVars, panic>>
           ELSE /\ sessions' = [sessions EXCEPT ![key].expireTime = refreshExpiryTime]
                /\ IF sendCloses[client] > 0
                   THEN \* ctx.Client.send <- message on a closed channel
                        /\ panic' = "send on closed channel"
                        /\ sweep' = [sweep EXCEPT !.refreshedClientCount = @ + 1]
                        /\ UNCHANGED chanVars
                   ELSE IF Len(send[client]) < sendMsgBufferSize
                   THEN /\ send' = [send EXCEPT ![client] = Append(@, sweep.message)]
                        /\ sweep' = [sweep EXCEPT !.refreshedClientCount = @ + 1,
                                                  !.messagesSent = @ + 1,
                                                  !.todo = @ \ {key}]
                        /\ UNCHANGED <<sendCloses, sendToken, tokenCloses, panic>>
                   ELSE \* default: close both queues, then return false
                        /\ sendCloses' = [sendCloses EXCEPT ![client] = @ + 1]
                        /\ tokenCloses' = [tokenCloses EXCEPT ![client] = @ + 1]
                        /\ panic' = IF tokenCloses[client] > 0
                                    THEN "close of closed channel" ELSE panic
                        /\ sweep' = [sweep EXCEPT !.refreshedClientCount = @ + 1,
                                                  !.todo = {}]
                        /\ UNCHANGED <<send, sendToken>>
    /\ UNCHANGED <<now, hubpc, broadcasts, cstate, open, session, pumpVars>>
    /\ UNCHANGED <<pipeVars, oslVars>>

\* one call of the Range visitor (streams.go 130-157), in any order
broadcastAllVisit(key) ==
    /\ Alive
    /\ hubpc = "sweep"
    /\ key \in sweep.todo
    /\ LET ctx == sessions[key]
           client == ctx.Client
       IN  IF SessionExpired(ctx)
           THEN /\ sessions' = Delete(sessions, key)
                /\ sweep' = [sweep EXCEPT !.expiredSessionCount = @ + 1,
                                          !.todo = @ \ {key}]
                /\ UNCHANGED <<chanVars, panic>>
           ELSE IF ~open[client]
           THEN /\ sweep' = [sweep EXCEPT !.closedClientCount = @ + 1,
                                          !.todo = @ \ {key}]
                /\ UNCHANGED <<sessions, chanVars, panic>>
           ELSE /\ sessions' = [sessions EXCEPT ![key].expireTime = refreshExpiryTime]
                /\ IF sendCloses[client] > 0
                   THEN \* ctx.Client.send <- message on a closed channel
                        /\ panic' = "send on closed channel"
                        /\ sweep' = [sweep EXCEPT !.refreshedClientCount = @ + 1]
                        /\ UNCHANGED chanVars
                   ELSE IF Len(send[client]) < sendMsgBufferSize
                   THEN /\ send' = [send EXCEPT ![client] = Append(@, sweep.message)]
                        /\ sweep' = [sweep EXCEPT !.refreshedClientCount = @ + 1,
                                                  !.messagesSent = @ + 1,
                                                  !.todo = @ \ {key}]
                        /\ UNCHANGED <<sendCloses, sendToken, tokenCloses, panic>>
                   ELSE \* default: close both queues, then return false
                        /\ sendCloses' = [sendCloses EXCEPT ![client] = @ + 1]
                        /\ tokenCloses' = [tokenCloses EXCEPT ![client] = @ + 1]
                        /\ panic' = IF tokenCloses[client] > 0
                                    THEN "close of closed channel" ELSE panic
                        /\ sweep' = [sweep EXCEPT !.refreshedClientCount = @ + 1,
                                                  !.todo = {}]
                        /\ UNCHANGED <<send, sendToken>>
    /\ UNCHANGED <<now, hubpc, broadcasts, cstate, open, session, pumpVars>>
    /\ UNCHANGED <<pipeVars, oslVars>>

\* Range is over: log the counts and return to the select (streams.go 158-168)
broadcastAllReturn ==
    /\ Alive
    /\ hubpc = "sweep"
    /\ sweep.todo = {}
    /\ hubpc' = "select"
    /\ sweep' = NoSweep
    /\ UNCHANGED <<now, sessions, panic, broadcasts, cstate, open, chanVars,
                   session, pumpVars>>
    /\ UNCHANGED <<pipeVars, oslVars>>

(* ------------------------- Client.readPump ----------------------------- *)
\* the peer goes away or the transport breaks
TransportFail(c) ==
    /\ Alive
    /\ cstate[c] = "started"
    /\ conn[c] = "up"
    /\ conn' = [conn EXCEPT ![c] = "closed"]
    /\ UNCHANGED <<now, hubVars, cstate, open, chanVars, session, wp, rp, wire>>
    /\ UNCHANGED <<pipeVars, oslVars>>

\* ReadMessage returns an error on a transport that is gone: leave
\* the loop; the deferred function now offers the client on svr.unregister
\* (client.go 129-143)
readPumpBreak(c) ==
    /\ Alive
    /\ rp[c] = "read"
    /\ conn[c] # "up"
    /\ rp' = [rp EXCEPT ![c] = "unregister"]
    /\ UNCHANGED <<now, hubVars, cstate, open, chanVars, session, conn, wp, wire>>
    /\ UNCHANGED <<pipeVars, oslVars>>

\* client.go 42-43
newline == "\n"
space == " "

\* what the peer of connection c can send as its k-th frame: the text "ck"
\* bare, wrapped in white space, or followed by a second line
InboundFrames(c, k) ==
    LET text == <<ToString(c), ToString(k)>>
    IN  {text,
         <<newline>> \o text \o <<space>>,
         text \o <<newline, "x">>}

\* bytes.Replace(message, newline, space, -1)
Replace(message) ==
    [i \in 1..Len(message) |-> IF message[i] = newline THEN space ELSE message[i]]

RECURSIVE TrimSpace(_)
\* bytes.TrimSpace: drop the leading and trailing white space
TrimSpace(message) ==
    IF message = <<>> THEN <<>>
    ELSE IF Head(message) \in {space, newline} THEN TrimSpace(Tail(message))
    ELSE IF message[Len(message)] \in {space, newline}
         THEN TrimSpace(SubSeq(message, 1, Len(message) - 1))
    ELSE message

\* NewRequest(c.session, message)
NewRequest(token, message) == [session |-> token, payload |-> message]

\* one turn of the read loop up to the send on Middleware.In (client.go
\* 137-147): ReadMessage returns a frame, it is normalised and wrapped.  The
\* log line at 147 reads c.session.Token, a nil dereference when no session
\* was bound to the client.
readPumpRead(c, raw) ==
    /\ Alive
    /\ rp[c] = "read"
    /\ conn[c] = "up"
    /\ reads[c] < MaxReads
    /\ raw \in InboundFrames(c, reads[c] + 1)
    /\ reads' = [reads EXCEPT ![c] = @ + 1]
    /\ LET message == TrimSpace(Replace(raw))
           req == NewRequest(session[c], message)
       IN  IF session[c] = ""
           THEN /\ panic' = "nil pointer dereference"
                /\ UNCHANGED <<held, rp>>
           ELSE /\ held' = [held EXCEPT ![c] = req]
                /\ rp' = [rp EXCEPT ![c] = "push"]
                /\ UNCHANGED panic
    /\ UNCHANGED <<now, sessions, hubpc, sweep, broadcasts, cstate, open,
                   chanVars, session, conn, wp, wire, ingress, processed,
                   oslVars>>

\* readPumpPush with a send that gives up when Middleware.In is full
readPumpPushOrDrop(c) ==
    /\ Alive
    /\ rp[c] = "push"
    /\ ingress' = IF Len(ingress) < MiddlewareInSize
                  THEN Append(ingress, held[c]) ELSE ingress
    /\ held' = [held EXCEPT ![c] = <<>>]
    /\ rp' = [rp EXCEPT ![c] = "read"]
    /\ UNCHANGED <<now, hubVars, cstate, open, chanVars, session, conn, wp,
                   wire, reads, processed, oslVars>>

\* c.server.Middleware.In <- req  (client.go 148): a blocking send, taken
\* when the queue has room; then back to ReadMessage
readPumpPush(c) ==
    /\ Alive
    /\ rp[c] = "push"
    /\ Len(ingress) < MiddlewareInSize
    /\ ingress' = Append(ingress, held[c])
    /\ held' = [held EXCEPT ![c] = <<>>]
    /\ rp' = [rp EXCEPT ![c] = "read"]
    /\ UNCHANGED <<now, hubVars, cstate, open, chanVars, session, conn, wp,
                   wire, reads, processed, oslVars>>

\* the single consumer of the pipeline receives the next Request
MiddlewareTake ==
    /\ Alive
    /\ ingress # <<>>
    /\ processed' = Append(processed, Head(ingress))
    /\ ingress' = Tail(ingress)
    /\ UNCHANGED <<now, hubVars, cstate, open, chanVars, session, pumpVars,
                   reads, held, oslVars>>

(* ------------------------- Client.writePump ---------------------------- *)
\* the deferred function of writePump: ticker.Stop(); c.conn.Close()
writePumpReturn(c) ==
    /\ wp' = [wp EXCEPT ![c] = [pc |-> "done", n |-> 0, w |-> <<>>]]
    /\ conn' = [conn EXCEPT ![c] = "closed"]

\* case message, ok := <-c.send  (client.go 162-170)
writePumpSend(c) ==
    /\ Alive
    /\ wp[c].pc = "select"
    /\ IF Len(send[c]) > 0
       THEN /\ send' = [send EXCEPT ![c] = Tail(@)]
            /\ wp' = [wp EXCEPT ![c] = [pc |-> "gotMsg", n |-> 0,
                                        w |-> <<Head(send[c])>>]]
            /\ UNCHANGED conn
       ELSE /\ sendCloses[c] > 0              \* !ok: the server closed it
            /\ writePumpReturn(c)
            /\ UNCHANGED send
    /\ UNCHANGED <<now, hubVars, cstate, open, sendCloses, sendToken,
                   tokenCloses, session, rp, wire>>
    /\ UNCHANGED <<pipeVars, oslVars>>

\* case token, ok := <-c.sendToken  (client.go 188-194)
writePumpToken(c) ==
    /\ Alive
    /\ wp[c].pc = "select"
    /\ IF Len(sendToken[c]) > 0
       THEN /\ sendToken' = [sendToken EXCEPT ![c] = Tail(@)]
            /\ wp' = [wp EXCEPT ![c] = [pc |-> "gotTok", n |-> 0,
                                        w |-> <<Head(sendToken[c])>>]]
            /\ UNCHANGED <<conn, wire>>
       ELSE /\ tokenCloses[c] > 0             \* !ok: write a close message
            /\ wire' = IF conn[c] = "up"
                       THEN [wire EXCEPT ![c] = Append(@, [kind |-> "close",
                                                           body |-> <<>>])]
                       ELSE wire
            /\ writePumpReturn(c)
            /\ UNCHANGED sendToken
    /\ UNCHANGED <<now, hubVars, cstate, open, send, sendCloses, tokenCloses,
                   session, rp>>
    /\ UNCHANGED <<pipeVars, oslVars>>

\* writePumpBatch with a drain loop that receives each queued payload but
\* writes the first payload again in its place
writePumpBatchRewriting(c) ==
    /\ Alive
    /\ wp[c].pc \in {"gotMsg", "gotTok"}
    /\ LET msg == wp[c].pc = "gotMsg"
           queue == IF msg THEN send[c] ELSE sendToken[c]
           n == Len(queue)
           drained == [send EXCEPT ![c] = SubSeq(queue, n + 1, Len(queue))]
           frame == [kind |-> IF msg THEN "data" ELSE "token",
                     body |-> wp[c].w \o [i \in 1..n |-> Head(wp[c].w)]]
       IN  IF conn[c] = "up"
           THEN /\ send' = IF msg THEN drained ELSE send
                /\ sendToken' = IF msg THEN sendToken
                                ELSE [sendToken EXCEPT ![c] = SubSeq(queue, n + 1, Len(queue))]
                /\ wire' = [wire EXCEPT ![c] = Append(@, frame)]
                /\ wp' = [wp EXCEPT ![c] = [pc |-> "select", n |-> 0, w |-> <<>>]]
                /\ UNCHANGED conn
           ELSE /\ writePumpReturn(c)
                /\ \/ UNCHANGED <<send, sendToken>>
                   \/ /\ send' = IF msg THEN drained ELSE send
                      /\ sendToken' = IF msg THEN sendToken
                                      ELSE [sendToken EXCEPT ![c] = SubSeq(queue, n + 1, Len(queue))]
                /\ UNCHANGED wire
    /\ UNCHANGED <<now, hubVars, cstate, open, sendCloses, tokenCloses,
                   session, rp>>
    /\ UNCHANGED <<pipeVars, oslVars>>

\* NextWriter, Write of the first payload, n := len(queue), the drain loop
\* (w.Write(newline); w.Write(<-queue), n times) and w.Close(), which flushes
\* the batch as one frame (client.go 172-187 and 196-211).  Only this pump
\* receives from the queue, so the n payloads it takes are the first n that
\* were queued when it sampled the length.  A failed NextWriter returns at
\* once; a failed w.Close() returns after the drain.
writePumpBatch(c) ==
    /\ Alive
    /\ wp[c].pc \in {"gotMsg", "gotTok"}
    /\ LET msg == wp[c].pc = "gotMsg"
           queue == IF msg THEN send[c] ELSE sendToken[c]
           n == Len(queue)
           drained == [send EXCEPT ![c] = SubSeq(queue, n + 1, Len(queue))]
           frame == [kind |-> IF msg THEN "data" ELSE "token",
                     body |-> wp[c].w \o SubSeq(queue, 1, n)]
       IN  IF conn[c] = "up"
           THEN /\ send' = IF msg THEN drained ELSE send
                /\ sendToken' = IF msg THEN sendToken
                                ELSE [sendToken EXCEPT ![c] = SubSeq(queue, n + 1, Len(queue))]
                /\ wire' = [wire EXCEPT ![c] = Append(@, frame)]
                /\ wp' = [wp EXCEPT ![c] = [pc |-> "select", n |-> 0, w |-> <<>>]]
                /\ UNCHANGED conn
           ELSE /\ writePumpReturn(c)
                /\ \/ UNCHANGED <<send, sendToken>>
                   \/ /\ send' = IF msg THEN drained ELSE send
                      /\ sendToken' = IF msg THEN sendToken
                                      ELSE [sendToken EXCEPT ![c] = SubSeq(queue, n + 1, Len(queue))]
                /\ UNCHANGED wire
    /\ UNCHANGED <<now, hubVars, cstate, open, sendCloses, tokenCloses,
                   session, rp>>
    /\ UNCHANGED <<pipeVars, oslVars>>

\* case <-ticker.C: a ping on a transport that is gone fails and ends the
\* pump; a ping that succeeds changes nothing recorded here (client.go 212-216)
writePumpPing(c) ==
    /\ Alive
    /\ wp[c].pc = "select"
    /\ conn[c] # "up"
    /\ writePumpReturn(c)
    /\ UNCHANGED <<now, hubVars, cstate, open, chanVars, session, rp, wire>>
    /\ UNCHANGED <<pipeVars, oslVars>>

(* ------------------------- OpenStreamsList ----------------------------- *)
AppControllers == 1..NumControllers

\* streams.go 19-23
OslExists(token) == token \in DOMAIN streams

\* streams.go 44-47
OslIsEmpty == length = 0

\* streams.go 34-37: osl.streams[token] = ac; osl.length += 1
OslAdd(token, ac) ==
    /\ length < MaxLength
    /\ streams' = [t \in (DOMAIN streams) \cup {token} |->
                     IF t = token THEN ac ELSE streams[t]]
    /\ length' = length + 1
    /\ UNCHANGED <<now, hubVars, cstate, open, chanVars, session, pumpVars,
                   pipeVars>>

\* streams.go 39-42: delete(osl.streams, token); osl.length -= 1
OslDelete(token) ==
    /\ length > -MaxLength
    /\ streams' = [t \in (DOMAIN streams) \ {token} |-> streams[t]]
    /\ length' = length - 1
    /\ UNCHANGED <<now, hubVars, cstate, open, chanVars, session, pumpVars,
                   pipeVars>>

\* the steps of the Hub goroutine
HubStep ==
    \/ \E c \in Clients : RunRegister(c)
    \/ \E c \in Clients : RunRegisterNewSessionFails(c)
    \/ \E c \in Clients : RunUnregister(c)
    \/ RunBroadcast
    \/ \E key \in MintableTokens : broadcastAllVisit(key)
    \/ broadcastAllReturn

Next ==
    \/ Tick
    \/ \E c \in Clients, t \in SuppliedTokens : ServeWs(c, t)
    \/ \E c \in Clients : StartPumps(c)
    \/ \E c \in Clients : RunRegister(c)
    \/ \E c \in Clients : RunRegisterNewSessionFails(c)
    \/ \E c \in Clients : RunUnregister(c)
    \/ RunBroadcast
    \/ \E key \in MintableTokens : broadcastAllVisit(key)
    \/ broadcastAllReturn
    \/ \E c \in Clients : TransportFail(c)
    \/ \E c \in Clients : readPumpBreak(c)
    \/ \E c \in Clients, k \in 1..MaxReads :
          \E raw \in InboundFrames(c, k) : readPumpRead(c, raw)
    \/ \E c \in Clients : readPumpPush(c)
    \/ MiddlewareTake
    \/ \E c \in Clients : writePumpSend(c)
    \/ \E c \in Clients : writePumpToken(c)
    \/ \E c \in Clients : writePumpBatch(c)
    \/ \E c \in Clients : writePumpPing(c)
    \/ \E t \in SuppliedTokens, ac \in AppControllers : OslAdd(t, ac)
    \/ \E t \in SuppliedTokens : OslDelete(t)

\* every goroutine of the program, any number of connections up to NumClients.
\* Its state space runs to tens of millions of states at the bounds above;
\* SpecHub, SpecMint, SpecConn, SpecRead and SpecStreams below are the
\* sub-systems of it that are explored exhaustively (every behaviour of any of
\* them is a behaviour of Spec).
Spec == Init /\ [][Next]_vars

\* the Hub with NumClients connections whose write pumps are never scheduled
\* (nothing is received from the outbound queues)
NextHub ==
    \/ Tick
    \/ \E c \in Clients, t \in SuppliedTokens : ServeWs(c, t)
    \/ \E c \in Clients : StartPumps(c)
    \/ \E c \in Clients : RunRegister(c)
    \/ \E c \in Clients : RunUnregister(c)
    \/ RunBroadcast
    \/ \E key \in MintableTokens : broadcastAllVisit(key)
    \/ broadcastAllReturn
    \/ \E c \in Clients : TransportFail(c)
    \/ \E c \in Clients : readPumpBreak(c)

SpecHub == Init /\ [][NextHub]_vars

\* the same Hub when NewSession can also fail
NextMint ==
    \/ Tick
    \/ \E c \in Clients, t \in SuppliedTokens : ServeWs(c, t)
    \/ \E c \in Clients : StartPumps(c)
    \/ \E c \in Clients : RunRegister(c)
    \/ \E c \in Clients : RunRegisterNewSessionFails(c)
    \/ \E c \in Clients : RunUnregister(c)
    \/ RunBroadcast
    \/ \E key \in MintableTokens : broadcastAllVisit(key)
    \/ broadcastAllReturn
    \/ \E c \in Clients : TransportFail(c)
    \/ \E c \in Clients : readPumpBreak(c)

SpecMint == Init /\ [][NextMint]_vars

\* the Hub and one connection with both of its pumps
NextConn ==
    \/ Tick
    \/ \E t \in SuppliedTokens : ServeWs(1, t)
    \/ StartPumps(1)
    \/ RunRegister(1)
    \/ RunUnregister(1)
    \/ RunBroadcast
    \/ \E key \in MintableTokens : broadcastAllVisit(key)
    \/ broadcastAllReturn
    \/ TransportFail(1)
    \/ readPumpBreak(1)
    \/ writePumpSend(1)
    \/ writePumpToken(1)
    \/ writePumpBatch(1)
    \/ writePumpPing(1)

SpecConn == Init /\ [][NextConn]_vars

\* the inbound path: NumClients connections register, their read pumps feed
\* the pipeline ingress; no broadcast is submitted and the clock stands still
NextRead ==
    \/ \E c \in Clients, t \in SuppliedTokens : ServeWs(c, t)
    \/ \E c \in Clients : StartPumps(c)
    \/ \E c \in Clients : RunRegister(c)
    \/ \E c \in Clients : RunUnregister(c)
    \/ \E c \in Clients : TransportFail(c)
    \/ \E c \in Clients : readPumpBreak(c)
    \/ \E c \in Clients, k \in 1..MaxReads :
          \E raw \in InboundFrames(c, k) : readPumpRead(c, raw)
    \/ \E c \in Clients : readPumpPush(c)
    \/ MiddlewareTake

SpecRead == Init /\ [][NextRead]_vars

\* an OpenStreamsList under any sequence of Add and Delete calls
NextStreams ==
    \/ \E t \in SuppliedTokens, ac \in AppControllers : OslAdd(t, ac)
    \/ \E t \in SuppliedTokens : OslDelete(t)

SpecStreams == Init /\ [][NextStreams]_vars

(* ======================================================================= *)
(*                               Claims                                    *)
(* ======================================================================= *)

\* what the Range visitor finds when it is called on `key`
Unexpired(key) == ~SessionExpired(sessions[key])
ClientOf(key) == sessions[key].Client
Targeted(key) == Unexpired(key) /\ open[ClientOf(key)]
QueueFull(c) == Len(send[c]) = sendMsgBufferSize

\* C1: a sweep's visit of a session that is unexpired, bound to a connection
\* marked open and whose message queue is not full enqueues the message once
\* on that connection's queue, counts one delivery, closes no queue and goes
\* on with the remaining sessions; so a sweep over K such sessions makes K
\* deliveries and no closure.
C1_SweepDeliversToEveryLiveSession ==
    [][\A key \in MintableTokens :
        (broadcastAllVisit(key) /\ Targeted(key) /\ ~QueueFull(ClientOf(key)))
        => /\ send' = [send EXCEPT ![ClientOf(key)] = Append(@, sweep.message)]
           /\ sweep'.messagesSent = sweep.messagesSent + 1
           /\ sweep'.todo = sweep.todo \ {key}
           /\ sendCloses' = sendCloses
           /\ tokenCloses' = tokenCloses]_vars

\* C2: when a sweep in which a connection was shed for a full queue is over,
\* every session of the store that is unexpired and bound to an open
\* connection whose queues are not closed has the sweep's message as the last
\* element of its queue (no write pump runs under SpecHub, so a message once
\* enqueued is still there).
C2_SweepServicesTheRemainingSessions ==
    (hubpc = "sweep" /\ sweep.todo = {} /\ Alive
        /\ sweep.refreshedClientCount > sweep.messagesSent)
    => \A key \in DOMAIN sessions :
          (Targeted(key) /\ sendCloses[ClientOf(key)] = 0)
          => /\ Len(send[ClientOf(key)]) > 0
             /\ send[ClientOf(key)][Len(send[ClientOf(key)])] = sweep.message

\* C3: each connection's message queue and token queue is closed at most once.
C3_QueuesClosedAtMostOnce ==
    \A c \in Clients : sendCloses[c] <= 1 /\ tokenCloses[c] <= 1

\* C4: an unregister event for a connection marked open marks it closed and
\* closes both of its queues (each now closed exactly once); an unregister
\* event for a connection marked closed changes neither the open flags, nor
\* the queues, nor the session store.
C4_UnregisterIdempotent ==
    [][\A c \in Clients :
        RunUnregister(c)
        => IF open[c]
           THEN /\ ~open'[c]
                /\ sendCloses'[c] = 1
                /\ tokenCloses'[c] = 1
                /\ panic' = "none"
           ELSE UNCHANGED <<open, chanVars, sessions, panic>>]_vars

\* C5: on the wire of a connection that was handed a freshly minted token,
\* every frame carrying a broadcast message comes after a token frame.  (Under
\* SpecConn the store is empty when the connection registers, so whatever it
\* presents, its token is freshly minted.)
C5_TokenFrameBeforeAnyDataFrame ==
    \A c \in Clients : \A i \in 1..Len(wire[c]) :
        wire[c][i].kind = "data"
        => \E j \in 1..(i - 1) : wire[c][j].kind = "token"

\* a step changes the expireTime of a session that exists before and after it
ExpireTimeChanged(key) ==
    /\ key \in DOMAIN sessions
    /\ key \in DOMAIN sessions'
    /\ sessions'[key].expireTime # sessions[key].expireTime

\* C6 as claimed: a session's expireTime never moves backward and changes only
\* in a step of a sweep that enqueues the message on that session's connection
\* (so not when the enqueue fails on a full queue).
C6_ExpireTimeOnlyOnSuccessfulDelivery ==
    [][\A key \in MintableTokens :
        ExpireTimeChanged(key)
        => /\ sessions'[key].expireTime > sessions[key].expireTime
           /\ hubpc = "sweep"
           /\ send'[ClientOf(key)] = Append(send[ClientOf(key)], sweep.message)]_vars

\* C6 as amended: a session's expireTime never moves backward and changes only
\* in a sweep's visit of that session when it is unexpired and its connection
\* is marked open (register, unregister and the visits of expired or not-open
\* sessions leave it alone); such a visit sets it to now + TTL before the
\* enqueue is tried, whether or not the enqueue then succeeds.
C6_ExpireTimeOnlyOnDeliveryAttempt ==
    [][\A key \in MintableTokens :
        /\ ExpireTimeChanged(key)
           => /\ sessions'[key].expireTime > sessions[key].expireTime
              /\ broadcastAllVisit(key)
              /\ Targeted(key)
        /\ (broadcastAllVisit(key) /\ Targeted(key))
           => /\ key \in DOMAIN sessions'
              /\ sessions'[key].expireTime = now + sessionTTL]_vars

\* C6 witness: inside a sweep that shed a connection for a full queue, the
\* session of that connection carries the refreshed deadline, later than any
\* deadline it can have had when its queue was filled
C6_Witness ==
    /\ hubpc = "sweep"
    /\ Alive
    /\ sweep.refreshedClientCount > sweep.messagesSent
    /\ \E key \in DOMAIN sessions :
         /\ sendCloses[ClientOf(key)] = 1
         /\ QueueFull(ClientOf(key))
         /\ now = MaxTime
         /\ sessions[key].expireTime = now + sessionTTL

\* C7: a sweep's visit of a session whose TTL has lapsed deletes it and
\* enqueues nothing, even if its connection is marked open; and every step that
\* removes a session from the store is such a visit (register and unregister
\* remove none).
C7_ExpiredSessionsSweptLazily ==
    [][\A key \in MintableTokens :
        /\ (broadcastAllVisit(key) /\ ~Unexpired(key))
           => /\ key \notin DOMAIN sessions'
              /\ send' = send
        /\ (key \in DOMAIN sessions /\ key \notin DOMAIN sessions')
           => /\ broadcastAllVisit(key)
              /\ ~Unexpired(key)]_vars

\* C7 witness: a sweep has deleted the expired session of a connection that is
\* still marked open, whose queues are untouched
C7_Witness ==
    /\ hubpc = "sweep"
    /\ sweep.expiredSessionCount > 0
    /\ \E c \in Clients :
         /\ open[c]
         /\ session[c] # ""
         /\ session[c] \notin DOMAIN sessions
         /\ send[c] = <<>>
         /\ sendCloses[c] = 0

\* C8: the Hub never sends on, or closes, a queue that is already closed, so
\* no runtime panic ends its event loop.
C8_HubLoopNeverTornDown ==
    panic = "none"

\* C9: a sweep's visit of a session that is unexpired and bound to a
\* connection marked open whose message queue is full closes that connection's
\* message queue and token queue and enqueues nothing for it.
C9_FullQueueIsForceClosed ==
    [][\A key \in MintableTokens :
        (broadcastAllVisit(key) /\ Targeted(key) /\ QueueFull(ClientOf(key)))
        => /\ sendCloses'[ClientOf(key)] = sendCloses[ClientOf(key)] + 1
           /\ tokenCloses'[ClientOf(key)] = tokenCloses[ClientOf(key)] + 1
           /\ send' = send
           /\ panic' = "none"]_vars

\* C10: the Hub is never stuck inside a handler: while it is inside a sweep
\* its next step (a visit or the return to the select) can be taken, and at
\* the select a pending registration can be handled, whatever the queues hold
\* and with no write pump receiving.
C10_HubNeverStuck ==
    /\ hubpc = "sweep"
       => ENABLED ((\E key \in MintableTokens : broadcastAllVisit(key))
                   \/ broadcastAllReturn)
    /\ \A c \in Clients :
         (hubpc = "select" /\ cstate[c] = "register") => ENABLED RunRegister(c)

\* the registration of c presents no token of an existing session, so the
\* handler calls NewSession
MintsToken(c) ==
    /\ RunRegister(c)
    /\ (Head(sendToken[c]) = "nil") \/ ~Exists(Head(sendToken[c]))

\* C11: the store is keyed by token, so no two of its sessions share one; a
\* token minted for a registration is the token of no session that exists at
\* that moment, the store has exactly that one session more afterwards (so N
\* such registrations leave N sessions under N pairwise distinct tokens), and
\* the connection is handed and bound to the minted token.
C11_MintedTokenIsNew ==
    [][\A c \in Clients :
        MintsToken(c)
        => /\ session'[c] \notin DOMAIN sessions
           /\ DOMAIN sessions' = (DOMAIN sessions) \cup {session'[c]}
           /\ Cardinality(DOMAIN sessions') = Cardinality(DOMAIN sessions) + 1
           /\ sendToken'[c] = <<session'[c]>>
           /\ sessions'[session'[c]].Client = c]_vars

\* C11 witness: two connections that presented no usable token hold two
\* different minted tokens, each the key of its own session
C11_Witness ==
    /\ Cardinality(DOMAIN sessions) = 2
    /\ session[1] # session[2]
    /\ \A c \in Clients :
         /\ cstate[c] = "registered"
         /\ sendToken[c] = <<session[c]>>
         /\ session[c] \in DOMAIN sessions
         /\ sessions[session[c]].Client = c

\* the registration of c presents the token of a session of the store
ResumesSession(c) ==
    /\ RunRegister(c)
    /\ Head(sendToken[c]) # "nil"
    /\ Exists(Head(sendToken[c]))

\* C12: a registration that presents a token for which Exists is true mints
\* nothing, leaves the connection's token queue empty, leaves the set of
\* sessions and every expireTime (that session's included) as they were, marks
\* the connection open and binds it to that session; also when the session's
\* TTL has lapsed and no sweep has deleted it yet.
C12_ResumeKeepsSessionAndMintsNothing ==
    [][\A c \in Clients :
        ResumesSession(c)
        => LET token == Head(sendToken[c])
           IN  /\ sendToken'[c] = <<>>
               /\ DOMAIN sessions' = DOMAIN sessions
               /\ \A t \in DOMAIN sessions :
                    /\ sessions'[t].expireTime = sessions[t].expireTime
                    /\ t # token => sessions'[t] = sessions[t]
               /\ sessions'[token].Client = c
               /\ session'[c] = token
               /\ open'[c]]_vars

\* C12 witness: the second connection has resumed the session minted for the
\* first one and was handed no token; the session still carries the deadline
\* it was minted with, which has lapsed, and no sweep has deleted it
C12_Witness ==
    /\ cstate[2] = "registered"
    /\ sendToken[2] = <<>>
    /\ session[2] = session[1]
    /\ session[2] \in DOMAIN sessions
    /\ sessions[session[2]].Client = 2
    /\ sessions[session[2]].expireTime = sessionTTL
    /\ now = MaxTime
    /\ SessionExpired(sessions[session[2]])
    /\ open[2]

\* C13: a sweep's visit of a session that is unexpired and whose connection is
\* not marked open is a skip: nothing is put on any queue, no expireTime is
\* refreshed, no session is deleted, no queue is closed; the visit is counted
\* as a closed client and the sweep goes on with the remaining sessions.
C13_SweepSkipsClosedConnections ==
    [][\A key \in MintableTokens :
        (broadcastAllVisit(key) /\ Unexpired(key) /\ ~open[ClientOf(key)])
        => /\ UNCHANGED <<send, sendToken, sendCloses, tokenCloses>>
           /\ sessions' = sessions
           /\ panic' = panic
           /\ sweep'.closedClientCount = sweep.closedClientCount + 1
           /\ sweep'.messagesSent = sweep.messagesSent
           /\ sweep'.refreshedClientCount = sweep.refreshedClientCount
           /\ sweep'.todo = sweep.todo \ {key}]_vars

\* C13 witness: a sweep has skipped the unexpired session of a connection
\* that was unregistered; the session is still in the store and the queue of
\* the connection holds nothing
C13_Witness ==
    /\ hubpc = "sweep"
    /\ Alive
    /\ sweep.closedClientCount > 0
    /\ \E key \in (DOMAIN sessions) \ sweep.todo :
         /\ Unexpired(key)
         /\ ~open[ClientOf(key)]
         /\ rp[ClientOf(key)] = "done"
         /\ send[ClientOf(key)] = <<>>
         /\ sendCloses[ClientOf(key)] = 1

\* the frame WriteMessage(websocket.CloseMessage, []byte{}) puts on the wire
CloseFrame == [kind |-> "close", body |-> <<>>]

\* the write pump of c receives from a queue that is closed and drained
SeesSendClosed(c) == writePumpSend(c) /\ Len(send[c]) = 0
SeesTokenClosed(c) == writePumpToken(c) /\ Len(sendToken[c]) = 0

\* C14: the step in which a write pump observes its message queue or its
\* token queue closed ends the pump and closes the transport; and when the
\* closure is observed on the message queue of a transport that is still up,
\* a close frame is written to it before the pump exits.
C14_QueueClosureEndsWritePump ==
    [][\A c \in Clients :
        /\ (SeesSendClosed(c) \/ SeesTokenClosed(c))
           => /\ wp'[c].pc = "done"
              /\ conn'[c] = "closed"
        /\ (SeesSendClosed(c) /\ conn[c] = "up")
           => wire'[c] = Append(wire[c], CloseFrame)]_vars

RECURSIVE DataBodies(_)
\* the payloads of the data frames of a wire, in the order they were written
DataBodies(frames) ==
    IF frames = <<>> THEN <<>>
    ELSE (IF Head(frames).kind = "data" THEN Head(frames).body ELSE <<>>)
         \o DataBodies(Tail(frames))

Written(c) == DataBodies(wire[c])

\* the messages of c that are not written yet: those its write pump has
\* received for the batch it is building, then those still queued
Pending(c) == (IF wp[c].pc = "gotMsg" THEN wp[c].w ELSE <<>>) \o send[c]

IsPrefix(s, t) == Len(s) <= Len(t) /\ SubSeq(t, 1, Len(s)) = s

PumpsIdle(c) ==
    /\ wp[c] = WpIdle
    /\ rp[c] = "off"
    /\ wire[c] = <<>>
    /\ reads[c] = 0
    /\ held[c] = <<>>

\* C16: as long as the Hub has not finished the registration of a connection
\* (the connection is not built yet, or is offered on svr.register and not
\* handled yet), it is not marked open, neither of its pumps has been started
\* and no frame has been read from or written to its transport.
C16_PumpsStartAfterRegistration ==
    \A c \in Clients :
        cstate[c] \in {"new", "register"} => (~open[c] /\ PumpsIdle(c))

\* C16 witness: a connection whose registration minted a token has both pumps
\* running and the token frame on its wire
C16_Witness ==
    /\ cstate[1] = "started"
    /\ session[1] \in MintableTokens
    /\ wp[1].pc = "select"
    /\ rp[1] = "read"
    /\ wire[1] = <<[kind |-> "token", body |-> <<session[1]>>]>>

\* C17: a read pump that has left its loop offers its connection on
\* svr.unregister once, on a transport that is closed; the Hub's handling of
\* that request ends the pump's exit, leaves the connection marked closed
\* with both of its queues closed and the process running, and changes the
\* open flag, the queues and the close counts of no other connection.
C17_ReadPumpExitUnregistersItsConnectionOnly ==
    [][\A c \in Clients :
        RunUnregister(c)
        => /\ rp[c] = "unregister"
           /\ rp'[c] = "done"
           /\ conn'[c] = "closed"
           /\ ~open'[c]
           /\ sendCloses'[c] > 0
           /\ tokenCloses'[c] > 0
           /\ panic' = "none"
           /\ \A d \in Clients \ {c} :
                /\ open'[d] = open[d]
                /\ send'[d] = send[d]
                /\ sendToken'[d] = sendToken[d]
                /\ sendCloses'[d] = sendCloses[d]
                /\ tokenCloses'[d] = tokenCloses[d]
                /\ rp'[d] = rp[d]]_vars

\* the Requests made from the frames of connection c, oldest first: those the
\* consumer has taken, those on the ingress queue, then the one in the hands
\* of the read pump
RequestsOf(c) ==
    SelectSeq(processed \o ingress, LAMBDA r : r.payload[1] = ToString(c))
    \o (IF rp[c] = "push" THEN <<held[c]>> ELSE <<>>)

C19_FailedMintIsNotFatal ==
    [][\A c \in Clients :
        RunRegisterNewSessionFails(c)
        => /\ sendToken'[c] = <<NoToken>>
           /\ sessions' = sessions
           /\ session'[c] = session[c]
           /\ open'[c]
           /\ cstate'[c] = "registered"
           /\ panic' = "none"
           /\ hubpc' = "select"]_vars

\* C19 witness: the second connection went through a registration whose
\* NewSession failed (it is bound to no session and was handed the empty
\* token) while the first one's session is in the store; since then the Hub
\* has handled the unregistration of the second connection and is inside a
\* sweep that has delivered a message
C19_Witness ==
    /\ Alive
    /\ session[2] = NoToken
    /\ sendToken[2] = <<NoToken>>
    /\ rp[2] = "done"
    /\ ~open[2]
    /\ session[1] \in DOMAIN sessions
    /\ hubpc = "sweep"
    /\ sweep.messagesSent > 0

\* C20: the length counter of the OpenStreamsList is the number of tokens for
\* which Exists is true, so IsEmpty is true exactly when Exists is true of
\* no token.
C20_LengthCountsTheTokens ==
    /\ length = Cardinality({t \in SuppliedTokens : OslExists(t)})
    /\ OslIsEmpty <=> (\A t \in SuppliedTokens : ~OslExists(t))

====
